---- MODULE Spec2Model ----
(***************************************************************************)
(* A model of the kvs log-structured key/value store (src/src/kv.rs,       *)
(* kvwriter.rs, kvreader.rs).  Segment files are byte sequences, a byte is *)
(* a one-character string, commands are the JSON text serde_json emits.    *)
(* Offsets and lengths are counted in bytes exactly as the code counts     *)
(* them.  A negative offset stands for the u64 value 2^64 + offset that a  *)
(* wrapping subtraction produces (TLC integers are narrower than u64).     *)
(***************************************************************************)
EXTENDS Integers, Sequences, FiniteSets, TLC

\* ---------------------------------------------------------------- bounds
\* Number of mutating steps (set, remove, drop, open, crash) in a behaviour;
\* a drop or a crash is taken only while an open can still follow it.
MaxOps == 5
\* Stand-in for the 1 MiB compaction threshold, scaled to the size of the
\* model's logs (one Set command is 17 bytes, one Remove command 14).
ScaledThreshold == 20

\* ------------------------------------------------------------ input sets
Keys == {<<"a">>, <<"b">>}
Values == {<<"1">>, <<"2">>}

\* ------------------------------------------------------------- constants
THRESHOLD == ScaledThreshold

\* --------------------------------------------------------------- results
Some(v) == [t |-> "Some", v |-> v, e |-> ""]
None == [t |-> "None", v |-> <<>>, e |-> ""]
Err(e) == [t |-> "Err", v |-> <<>>, e |-> e]
Ok == [t |-> "Ok", v |-> <<>>, e |-> ""]

\* ----------------------------------------------------------------- codec
\* KvAction::Set(key, value) and KvAction::Remove(key)
SetAction(k, v) == [tag |-> "Set", key |-> k, value |-> v]
RemoveAction(k) == [tag |-> "Remove", key |-> k, value |-> <<>>]
NoAction == [tag |-> "", key |-> <<>>, value |-> <<>>]

Quote == "\""
\* {"Set":["
SetHead == <<"{", Quote, "S", "e", "t", Quote, ":", "[", Quote>>
\* ","
SetMid == <<Quote, ",", Quote>>
\* "]}
SetTail == <<Quote, "]", "}">>
\* {"Remove":"
RemoveHead == <<"{", Quote, "R", "e", "m", "o", "v", "e", Quote, ":", Quote>>
\* "}
RemoveTail == <<Quote, "}">>

\* serde_json::to_writer of a KvAction (externally tagged enum).  Keys and
\* values of the model hold no character that JSON escapes.
to_writer(action) ==
    IF action.tag = "Set"
    THEN SetHead \o action.key \o SetMid \o action.value \o SetTail
    ELSE RemoveHead \o action.key \o RemoveTail

\* bytes[p..] starts with lit (p is a 1-based index)
HasPrefix(bytes, p, lit) ==
    /\ p + Len(lit) - 1 <= Len(bytes)
    /\ \A i \in 1..Len(lit) : bytes[p + i - 1] = lit[i]

\* index of the first quote at or after p, 0 when there is none
RECURSIVE ScanQuote(_, _)
ScanQuote(bytes, p) ==
    IF p > Len(bytes) THEN 0
    ELSE IF bytes[p] = Quote THEN p
    ELSE ScanQuote(bytes, p + 1)

ParseFail == [ok |-> FALSE, action |-> NoAction, next |-> 0]

\* Deserialize one KvAction whose text starts at the 1-based index p;
\* next is the 0-based byte offset just after it (byte_offset()).
ParseAt(bytes, p) ==
    IF HasPrefix(bytes, p, SetHead)
    THEN LET k0 == p + Len(SetHead)
             q1 == ScanQuote(bytes, k0)
         IN IF q1 = 0 \/ ~HasPrefix(bytes, q1, SetMid) THEN ParseFail
            ELSE LET v0 == q1 + Len(SetMid)
                     q2 == ScanQuote(bytes, v0)
                 IN IF q2 = 0 \/ ~HasPrefix(bytes, q2, SetTail) THEN ParseFail
                    ELSE [ok |-> TRUE,
                          action |-> SetAction(SubSeq(bytes, k0, q1 - 1),
                                               SubSeq(bytes, v0, q2 - 1)),
                          next |-> q2 + Len(SetTail) - 1]
    ELSE IF HasPrefix(bytes, p, RemoveHead)
    THEN LET k0 == p + Len(RemoveHead)
             q1 == ScanQuote(bytes, k0)
         IN IF q1 = 0 \/ ~HasPrefix(bytes, q1, RemoveTail) THEN ParseFail
            ELSE [ok |-> TRUE,
                  action |-> RemoveAction(SubSeq(bytes, k0, q1 - 1)),
                  next |-> q1 + Len(RemoveTail) - 1]
    ELSE ParseFail

\* serde_json::from_reader: one value, then nothing but the end of input
from_reader(bytes) ==
    LET p == ParseAt(bytes, 1)
    IN IF p.ok /\ p.next = Len(bytes) THEN p ELSE ParseFail

\* ---------------------------------------------------------- segment files
\* KvWriter::new: the file is opened with create+append and pos is the
\* result of seek(Current(0)) on the fresh descriptor.  A descriptor opened
\* in append mode starts at offset 0 whatever the file holds; only the
\* writes themselves go to the end of the file.
KvWriter_new(disk, generation) == [pos |-> 0, buf |-> <<>>]

\* the file system after KvWriter::new (create(true))
CreateFile(disk, generation) ==
    IF generation \in DOMAIN disk THEN disk
    ELSE [g \in DOMAIN disk \cup {generation} |->
            IF g = generation THEN <<>> ELSE disk[g]]

\* KvWriter::write: the bytes go to the BufWriter, pos advances by their count
KvWriter_write(writer, bytes) ==
    [pos |-> writer.pos + Len(bytes), buf |-> writer.buf \o bytes]

\* the file system after KvWriter::flush on the writer of `generation`
FlushTo(disk, generation, writer) ==
    [disk EXCEPT ![generation] = @ \o writer.buf]

\* seek(SeekFrom::Start(offset)) followed by reading to the end of the file
ReadFrom(bytes, offset) ==
    IF offset >= Len(bytes) THEN <<>> ELSE SubSeq(bytes, offset + 1, Len(bytes))

\* seek(SeekFrom::Start(offset)) followed by take(length)
ReadTake(bytes, offset, length) ==
    LET rest == ReadFrom(bytes, offset)
    IN IF length >= Len(rest) THEN rest ELSE SubSeq(rest, 1, length)

\* ------------------------------------------------------------------ index
KvIndexRecord(g, o, l) == [generation |-> g, offset |-> o, length |-> l]

\* HashMap::insert
Insert(index, key, record) ==
    [k \in DOMAIN index \cup {key} |-> IF k = key THEN record ELSE index[k]]

\* HashMap::remove
Delete(index, key) == [k \in DOMAIN index \ {key} |-> index[k]]

EmptyIndex == [k \in {} |-> KvIndexRecord(0, 0, 0)]
EmptyDisk == [g \in {} |-> <<>>]

\* ------------------------------------------------------------------ store
\* struct KvStore (path is the one directory the model has)
KvStore(generation, index, writer, readers, compactable) ==
    [generation |-> generation, index |-> index, writer |-> writer,
     readers |-> readers, compactable |-> compactable]

NoStore == KvStore(0, EmptyIndex, [pos |-> 0, buf |-> <<>>], {}, 0)

RECURSIVE SortSet(_)
SortSet(S) ==
    IF S = {} THEN <<>>
    ELSE LET m == CHOOSE x \in S : \A y \in S : x <= y
         IN <<m>> \o SortSet(S \ {m})

\* the generations that have a file <g>.db, ascending
active_generations(disk) == SortSet(DOMAIN disk)

\* load: replay one segment into the index; `generation` is the value the
\* caller passes, `bytes` the contents of the file behind `reader`
RECURSIVE loadFrom(_, _, _, _, _)
loadFrom(index, generation, bytes, offset, compactable) ==
    IF offset >= Len(bytes)
    THEN [ok |-> TRUE, index |-> index, compactable |-> compactable]
    ELSE LET p == ParseAt(bytes, offset + 1)
             next_offset == p.next
             length == next_offset - offset
             key == p.action.key
             outdated == IF key \in DOMAIN index THEN index[key].length ELSE 0
         IN IF ~p.ok
            THEN [ok |-> FALSE, index |-> index, compactable |-> compactable]
            ELSE IF p.action.tag = "Set"
            THEN loadFrom(Insert(index, key, KvIndexRecord(generation, offset, length)),
                          generation, bytes, next_offset, compactable + outdated)
            ELSE loadFrom(Delete(index, key),
                          generation, bytes, next_offset, compactable + outdated + length)

load(index, generation, bytes) == loadFrom(index, generation, bytes, 0, 0)

\* the loop of open over the generations found; every call of load is given
\* `generation`, the active generation, not the generation `gen` being read
RECURSIVE openLoad(_, _, _, _, _, _)
openLoad(index, generation, generations, i, disk, compactable) ==
    IF i > Len(generations)
    THEN [ok |-> TRUE, index |-> index, compactable |-> compactable]
    ELSE LET gen == generations[i]
             r == load(index, generation, disk[gen])
         IN IF ~r.ok THEN r
            ELSE openLoad(r.index, generation, generations, i + 1, disk,
                          compactable + r.compactable)

\* open that keeps what was replayed before a command failed to decode
open_recovers_prefix(disk) ==
    LET generations == active_generations(disk)
        generation == IF Len(generations) = 0 THEN 0
                      ELSE generations[Len(generations)]
        writer == KvWriter_new(disk, generation)
        d1 == CreateFile(disk, generation)
        r == openLoad(EmptyIndex, generation, generations, 1, d1, 0)
    IN [res |-> Ok, disk |-> d1,
        store |-> KvStore(generation, r.index, writer, DOMAIN d1, r.compactable)]

\* KvStore::open
open(disk) ==
    LET generations == active_generations(disk)
        generation == IF Len(generations) = 0 THEN 0
                      ELSE generations[Len(generations)]
        writer == KvWriter_new(disk, generation)
        d1 == CreateFile(disk, generation)
    IN IF Len(generations) = 0
       THEN [res |-> Ok, disk |-> d1,
             store |-> KvStore(generation, EmptyIndex, writer, {0}, 0)]
       ELSE LET r == openLoad(EmptyIndex, generation, generations, 1, d1, 0)
            IN IF r.ok
               THEN [res |-> Ok, disk |-> d1,
                     store |-> KvStore(generation, r.index, writer,
                                       DOMAIN disk, r.compactable)]
               ELSE [res |-> Err("Serde"), disk |-> d1, store |-> NoStore]

\* KvStore::get
get(store, disk, key) ==
    IF key \notin DOMAIN store.index THEN None
    ELSE LET rec == store.index[key]
         IN IF rec.generation \notin store.readers THEN Err("NoReaderPanic")
            ELSE IF rec.offset < 0 THEN Err("Io")
            ELSE LET p == from_reader(ReadTake(disk[rec.generation],
                                               rec.offset, rec.length))
                 IN IF ~p.ok THEN Err("Serde")
                    ELSE IF p.action.tag = "Set" THEN Some(p.action.value)
                    ELSE Err("UnexpectedAction")

\* the for loop of compact over index.values_mut(), visited in `order`;
\* `wrap` tells whether the build wraps on u64 underflow or panics
RECURSIVE compactLoop(_, _, _, _, _, _, _, _)
compactLoop(index, writer, readers, disk, generation, order, i, wrap) ==
    IF i > Len(order)
    THEN [status |-> "ok", index |-> index, writer |-> writer,
          underflow |-> FALSE, marks |-> {}]
    ELSE LET key == order[i]
             entry == index[key]
         IN IF entry.generation \notin readers
            THEN [status |-> "NoReaderPanic", index |-> index, writer |-> writer,
                  underflow |-> FALSE, marks |-> {}]
            ELSE IF entry.offset < 0
            THEN [status |-> "Io", index |-> index, writer |-> writer,
                  underflow |-> FALSE, marks |-> {}]
            ELSE LET copied == ReadFrom(disk[entry.generation], entry.offset)
                     w2 == KvWriter_write(writer, copied)
                     under == w2.pos < entry.length
                     moved == KvIndexRecord(generation, w2.pos - entry.length,
                                            entry.length)
                 IN IF under /\ ~wrap
                    THEN [status |-> "OverflowPanic", index |-> index,
                          writer |-> w2, underflow |-> TRUE, marks |-> {}]
                    ELSE LET r == compactLoop(Insert(index, key, moved), w2, readers,
                                              disk, generation, order, i + 1, wrap)
                         IN [r EXCEPT !.underflow = @ \/ under,
                                      !.marks = @ \cup {w2.pos}]

\* a compaction that leaves the old segment files in the directory
RemoveFiles_keeps_all(disk, gone) == disk

\* the files left after fs::remove_file of every generation in `gone`
RemoveFiles(disk, gone) == [g \in DOMAIN disk \ gone |-> disk[g]]

\* compact that drops the readers of the old generations before its loop
compact_drops_readers_first(store, disk, order, wrap) ==
    LET generation == store.generation + 1
        writer == KvWriter_new(disk, generation)
        d1 == CreateFile(disk, generation)
        readers == {generation}
        l == compactLoop(store.index, writer, readers, d1, generation, order, 1, wrap)
        d2 == FlushTo(d1, generation, l.writer)
        removable == {gen \in store.readers : gen < generation}
    IN IF l.status = "ok"
       THEN [res |-> Ok, underflow |-> l.underflow,
             disk |-> RemoveFiles(d2, removable),
             store |-> KvStore(generation, l.index,
                               [pos |-> l.writer.pos, buf |-> <<>>], readers, 0)]
       ELSE IF l.status = "Io"
       THEN [res |-> Err("Io"), underflow |-> l.underflow, disk |-> d1,
             store |-> KvStore(generation, l.index, l.writer, readers,
                               store.compactable)]
       ELSE [res |-> Err(l.status), underflow |-> l.underflow, disk |-> d2,
             store |-> NoStore]

\* KvStore::compact
compact(store, disk, order, wrap) ==
    LET generation == store.generation + 1
        writer == KvWriter_new(disk, generation)
        d1 == CreateFile(disk, generation)
        readers == store.readers \cup {generation}
        l == compactLoop(store.index, writer, readers, d1, generation, order, 1, wrap)
        d2 == FlushTo(d1, generation, l.writer)
        removable == {gen \in readers : gen < generation}
    IN IF l.status = "ok"
       THEN [res |-> Ok, underflow |-> l.underflow,
             disk |-> RemoveFiles(d2, removable),
             store |-> KvStore(generation, l.index,
                               [pos |-> l.writer.pos, buf |-> <<>>],
                               readers \ removable, 0)]
       ELSE IF l.status = "Io"
       THEN [res |-> Err("Io"), underflow |-> l.underflow, disk |-> d1,
             store |-> KvStore(generation, l.index, l.writer, readers,
                               store.compactable)]
       ELSE \* a panic unwinds and drops the store: the BufWriter is flushed
            [res |-> Err(l.status), underflow |-> l.underflow, disk |-> d2,
             store |-> NoStore]

\* KvStore::set up to the threshold test: write, flush, index insert
setWrite(store, disk, key, value) ==
    LET offset == store.writer.pos
        w2 == KvWriter_write(store.writer, to_writer(SetAction(key, value)))
        length == w2.pos - offset
        record == KvIndexRecord(store.generation, offset, length)
        outdated == IF key \in DOMAIN store.index
                    THEN store.index[key].length ELSE 0
    IN [disk |-> FlushTo(disk, store.generation, w2),
        store |-> KvStore(store.generation, Insert(store.index, key, record),
                          [pos |-> w2.pos, buf |-> <<>>], store.readers,
                          store.compactable + outdated)]

\* set that tests the threshold on the counter as it was before the upsert
set_tests_before_upsert(store, disk, key, value, order, wrap) ==
    LET w == setWrite(store, disk, key, value)
    IN IF store.compactable > THRESHOLD
       THEN LET c == compact(w.store, w.disk, order, wrap)
            IN [res |-> c.res, underflow |-> c.underflow, disk |-> c.disk,
                store |-> c.store, compacted |-> TRUE]
       ELSE [res |-> Ok, underflow |-> FALSE, disk |-> w.disk, store |-> w.store,
             compacted |-> FALSE]

\* KvStore::set
set(store, disk, key, value, order, wrap) ==
    LET w == setWrite(store, disk, key, value)
    IN IF w.store.compactable > THRESHOLD
       THEN LET c == compact(w.store, w.disk, order, wrap)
            IN [res |-> c.res, underflow |-> c.underflow, disk |-> c.disk,
                store |-> c.store, compacted |-> TRUE]
       ELSE [res |-> Ok, underflow |-> FALSE, disk |-> w.disk, store |-> w.store,
             compacted |-> FALSE]

\* remove that appends the Remove command before it looks the key up
remove_appends_first(store, disk, key) ==
    LET w2 == KvWriter_write(store.writer, to_writer(RemoveAction(key)))
        flushed == [pos |-> w2.pos, buf |-> <<>>]
    IN IF key \in DOMAIN store.index
       THEN [res |-> Ok,
             disk |-> FlushTo(disk, store.generation, w2),
             store |-> KvStore(store.generation, Delete(store.index, key), flushed,
                               store.readers,
                               store.compactable + store.index[key].length)]
       ELSE [res |-> Err("KeyNotFound"),
             disk |-> FlushTo(disk, store.generation, w2),
             store |-> [store EXCEPT !.writer = flushed]]

\* remove that, like set, compacts when the counter has passed THRESHOLD
remove_compacts(store, disk, key) ==
    IF key \in DOMAIN store.index
    THEN LET w2 == KvWriter_write(store.writer, to_writer(RemoveAction(key)))
             outdated == store.index[key]
             removed == KvStore(store.generation, Delete(store.index, key),
                                [pos |-> w2.pos, buf |-> <<>>], store.readers,
                                store.compactable + outdated.length)
             flushed == FlushTo(disk, store.generation, w2)
             live == DOMAIN removed.index
             order == CHOOSE f \in [1..Cardinality(live) -> live] :
                         \A k \in live : \E i \in DOMAIN f : f[i] = k
         IN IF removed.compactable > THRESHOLD
            THEN LET c == compact(removed, flushed, order, TRUE)
                 IN [res |-> c.res, disk |-> c.disk, store |-> c.store]
            ELSE [res |-> Ok, disk |-> flushed, store |-> removed]
    ELSE [res |-> Err("KeyNotFound"), disk |-> disk, store |-> store]

\* KvStore::remove
remove(store, disk, key) ==
    IF key \in DOMAIN store.index
    THEN LET w2 == KvWriter_write(store.writer, to_writer(RemoveAction(key)))
             outdated == store.index[key]
         IN [res |-> Ok,
             disk |-> FlushTo(disk, store.generation, w2),
             store |-> KvStore(store.generation, Delete(store.index, key),
                               [pos |-> w2.pos, buf |-> <<>>], store.readers,
                               store.compactable + outdated.length)]
    ELSE [res |-> Err("KeyNotFound"), disk |-> disk, store |-> store]

\* the loop of compact as run by compact(store, ...), for the crash actions
loopOf(store, disk, order, wrap) ==
    LET generation == store.generation + 1
    IN compactLoop(store.index, KvWriter_new(disk, generation),
                   store.readers \cup {generation}, CreateFile(disk, generation),
                   generation, order, 1, wrap)

\* the directory when the process dies inside compact before the flush of
\* line 199: the new segment holds the first `cut` bytes of what was written
crashBeforeFlush(store, disk, order, wrap, cut) ==
    LET generation == store.generation + 1
        l == loopOf(store, disk, order, wrap)
    IN [CreateFile(disk, generation) EXCEPT ![generation] = SubSeq(l.writer.buf, 1, cut)]

\* the directory when the process dies after the flush, the generations in
\* `deleted` removed already (lines 208-211)
crashAfterFlush(store, disk, order, wrap, deleted) ==
    LET generation == store.generation + 1
        l == loopOf(store, disk, order, wrap)
    IN RemoveFiles(FlushTo(CreateFile(disk, generation), generation, l.writer), deleted)

\* the prefixes of the written bytes a crash before the flush may leave: none,
\* up to the end of one entry's copy, or all but the last byte (all of them
\* is the directory of a crash right after the flush)
CrashCuts(store, disk, order, wrap) ==
    LET l == loopOf(store, disk, order, wrap)
        n == Len(l.writer.buf)
    IN ({0} \cup l.marks \cup (IF n > 0 THEN {n - 1} ELSE {})) \ {n}

\* ------------------------------------------------------------ state machine
VARIABLES
    store,   \* the KvStore instance of the process (NoStore when there is none)
    disk,    \* the directory: generation |-> contents of <generation>.db
    alive,   \* the process holds an instance
    last,    \* the last operation, its arguments, its result (history)
    written, \* the keys this instance has set and not removed since (history)
    nops     \* number of mutating steps taken

vars == <<store, disk, alive, last, written, nops>>

Perms(S) == {f \in [1..Cardinality(S) -> S] : \A k \in S : \E i \in DOMAIN f : f[i] = k}

RECURSIVE SumLen(_, _)
SumLen(d, S) ==
    IF S = {} THEN 0
    ELSE LET g == CHOOSE x \in S : TRUE IN Len(d[g]) + SumLen(d, S \ {g})

\* total byte count of the segment files of the directory
TotalBytes(d) == SumLen(d, DOMAIN d)

\* what get returns for every key
Visible(s, d) == [k \in Keys |-> get(s, d, k)]

NoPre == [k \in Keys |-> None]

Last(op, key, value, res) ==
    [op |-> op, key |-> key, value |-> value, res |-> res, compacted |-> FALSE,
     from |-> "", pre |-> NoPre, preDisk |-> EmptyDisk, preStore |-> NoStore,
     rewrite |-> FALSE, hidden |-> {}, underflow |-> FALSE, flushed |-> FALSE, deleted |-> {}]

\* a panic ends the process
Panicked(res) == res.t = "Err" /\ res.e \in {"NoReaderPanic", "OverflowPanic"}

\* The directories a first open may find: a missing or empty one, and one
\* left by an earlier instance that was opened on an empty directory, ran
\* set("a", "22") and was dropped.
InitDisks ==
    {EmptyDisk, [g \in {0} |-> to_writer(SetAction(<<"a">>, <<"2", "2">>))]}

\* the state after KvStore::open on one of these directories
Init ==
    /\ \E d \in InitDisks :
          /\ store = open(d).store
          /\ disk = open(d).disk
          /\ last = [Last("open", <<>>, <<>>, Ok) EXCEPT !.preDisk = d]
    /\ alive = TRUE
    /\ written = {}
    /\ nops = 0

Set(key, value, order, wrap) ==
    /\ alive
    /\ nops < MaxOps
    /\ LET w == setWrite(store, disk, key, value)
           r == set(store, disk, key, value, order, wrap)
       IN /\ store' = r.store
          /\ disk' = r.disk
          /\ alive' = ~Panicked(r.res)
          /\ last' = [Last("set", key, value, r.res) EXCEPT
                         !.compacted = r.compacted,
                         !.pre = Visible(w.store, w.disk),
                         !.preDisk = w.disk,
                         !.preStore = store,
                         !.rewrite = (key \in written),
                         !.underflow = r.underflow]
    /\ written' = IF alive' THEN written \cup {key} ELSE {}
    /\ nops' = nops + 1

Get(key) ==
    /\ alive
    /\ LET r == get(store, disk, key)
       IN /\ last' = [Last("get", key, <<>>, r) EXCEPT !.preStore = store,
                                                       !.preDisk = disk]
          /\ written' = IF Panicked(r) THEN {} ELSE written
          /\ alive' = ~Panicked(r)
          /\ store' = IF Panicked(r) THEN NoStore ELSE store
          /\ disk' = IF Panicked(r) THEN FlushTo(disk, store.generation, store.writer)
                     ELSE disk
    /\ UNCHANGED nops

Remove(key) ==
    /\ alive
    /\ nops < MaxOps
    /\ LET r == remove(store, disk, key)
       IN /\ store' = r.store
          /\ disk' = r.disk
          /\ last' = [Last("remove", key, <<>>, r.res) EXCEPT
                         !.preStore = store, !.preDisk = disk,
                         !.hidden = IF r.res = Ok /\ key \in written
                                    THEN {key} ELSE {}]
          /\ written' = IF r.res = Ok THEN written \ {key} ELSE written
    /\ alive' = alive
    /\ nops' = nops + 1

\* the instance is dropped: the BufWriter flushes what it still holds
Drop ==
    /\ alive
    /\ nops + 1 < MaxOps
    /\ disk' = FlushTo(disk, store.generation, store.writer)
    /\ store' = NoStore
    /\ alive' = FALSE
    /\ last' = [Last("drop", <<>>, <<>>, Ok) EXCEPT !.pre = Visible(store, disk),
                                                   !.preStore = store,
                                                   !.preDisk = disk,
                                                   !.hidden = last.hidden]
    /\ written' = {}
    /\ nops' = nops + 1

\* KvStore::open on the directory as it is
Open ==
    /\ ~alive
    /\ nops < MaxOps
    /\ LET r == open(disk)
       IN /\ store' = r.store
          /\ disk' = r.disk
          /\ alive' = (r.res = Ok)
          /\ last' = [Last("open", <<>>, <<>>, r.res) EXCEPT
                         !.from = last.op, !.pre = last.pre,
                         !.preDisk = disk, !.hidden = last.hidden,
                         !.flushed = last.flushed, !.deleted = last.deleted]
    /\ written' = {}
    /\ nops' = nops + 1

\* the process dies inside the compaction that set(key, value) started,
\* before the new segment is flushed (the bytes written before the death are
\* those of a build that wraps; a panic of a checking build is part of Set)
CrashBeforeFlush(key, value, order) ==
    /\ alive
    /\ nops + 1 < MaxOps
    /\ LET w == setWrite(store, disk, key, value)
       IN /\ w.store.compactable > THRESHOLD
          /\ \E cut \in CrashCuts(w.store, w.disk, order, TRUE) :
                disk' = crashBeforeFlush(w.store, w.disk, order, TRUE, cut)
          /\ last' = [Last("crash", key, value, Ok) EXCEPT
                         !.pre = Visible(w.store, w.disk),
                         !.preDisk = w.disk]
    /\ written' = {}
    /\ store' = NoStore
    /\ alive' = FALSE
    /\ nops' = nops + 1

\* the process dies inside that compaction after the flush, while the old
\* segments are being removed
CrashAfterFlush(key, value, order) ==
    /\ alive
    /\ nops + 1 < MaxOps
    /\ LET w == setWrite(store, disk, key, value)
       IN /\ w.store.compactable > THRESHOLD
          /\ loopOf(w.store, w.disk, order, TRUE).status = "ok"
          /\ \E deleted \in SUBSET {g \in w.store.readers : g <= w.store.generation} :
                /\ disk' = crashAfterFlush(w.store, w.disk, order, TRUE, deleted)
                /\ last' = [Last("crash", key, value, Ok) EXCEPT
                               !.pre = Visible(w.store, w.disk),
                               !.preDisk = w.disk,
                               !.flushed = TRUE, !.deleted = deleted]
    /\ written' = {}
    /\ store' = NoStore
    /\ alive' = FALSE
    /\ nops' = nops + 1

\* a set(key, value) can be taken and runs compact
Compacts(key, value) ==
    /\ alive
    /\ nops < MaxOps
    /\ setWrite(store, disk, key, value).store.compactable > THRESHOLD

\* the orders in which index.values_mut() may visit the entries when
\* set(key, value) compacts (the order is not looked at otherwise)
Orders(key, value) ==
    IF Compacts(key, value) THEN Perms(DOMAIN store.index \cup {key}) ELSE {<<>>}

\* the builds that differ on set(key, value): one that wraps on u64 underflow
\* (TRUE) and, when a subtraction of compact underflows, one that panics
Builds(key, value, order) ==
    LET w == setWrite(store, disk, key, value)
    IN IF Compacts(key, value) /\ loopOf(w.store, w.disk, order, TRUE).underflow
       THEN BOOLEAN ELSE {TRUE}

Next ==
    \/ \E key \in Keys, value \in Values :
          \E order \in Orders(key, value) :
             \E wrap \in Builds(key, value, order) :
                Set(key, value, order, wrap)
    \/ \E key \in Keys : Get(key)
    \/ \E key \in Keys : Remove(key)
    \/ Drop
    \/ Open
    \/ \E key \in Keys, value \in Values :
          \E order \in Orders(key, value) :
             CrashBeforeFlush(key, value, order)
    \/ \E key \in Keys, value \in Values :
          \E order \in Orders(key, value) :
             CrashAfterFlush(key, value, order)

Spec == Init /\ [][Next]_vars

\* One instance on a directory that was empty, never dropped, and a process
\* that does not die: the operations of the public contract alone.
InitLive ==
    /\ store = open(EmptyDisk).store
    /\ disk = open(EmptyDisk).disk
    /\ last = Last("open", <<>>, <<>>, Ok)
    /\ alive = TRUE
    /\ written = {}
    /\ nops = 0

NextLive ==
    \/ \E key \in Keys, value \in Values :
          \E order \in Orders(key, value) :
             \E wrap \in Builds(key, value, order) :
                Set(key, value, order, wrap)
    \/ \E key \in Keys : Get(key)
    \/ \E key \in Keys : Remove(key)

SpecLive == InitLive /\ [][NextLive]_vars

\* ------------------------------------------------------------------ claims
\* every segment of the directory is a sequence of whole commands
Untorn(d) == \A g \in DOMAIN d : load(EmptyIndex, g, d[g]).ok

\* C1: read-your-writes.  After set(k, v) has returned successfully, on a
\* fresh instance, on one opened over existing data, or when the set itself
\* compacted, get(k) returns Some(v).
C1_ReadYourWrites ==
    (alive /\ last.op = "set" /\ last.res = Ok)
        => get(store, disk, last.key) = Some(last.value)

\* C2: durability across reopen.  After the instance is dropped, open on the
\* same directory succeeds and get agrees, on every key, with what the
\* dropped instance returned.
C2_DurabilityAcrossReopen ==
    (last.op = "open" /\ last.from = "drop")
        => (last.res = Ok /\ Visible(store, disk) = last.pre)

\* C3: compaction preserves semantics.  When a set compacts, whatever the
\* order in which the entries are visited, get returns for every key what it
\* would have returned just before the compaction.
C3_CompactionPreservesSemantics ==
    (alive /\ last.op = "set" /\ last.compacted /\ last.res = Ok)
        => Visible(store, disk) = last.pre

\* C4: index fidelity.  Between operations, the `length` bytes at `offset` of
\* segment `generation` of every index record of key k are one Set(k, _).
C4_IndexFidelity ==
    alive =>
        \A k \in DOMAIN store.index :
            LET rec == store.index[k]
            IN /\ rec.generation \in DOMAIN disk
               /\ rec.offset >= 0
               /\ LET p == from_reader(ReadTake(disk[rec.generation],
                                                rec.offset, rec.length))
                  IN p.ok /\ p.action.tag = "Set" /\ p.action.key = k

\* C5: last-write-wins.  After a second set(k, v2) on an instance that has
\* set k before and not removed it since, get(k) returns Some(v2).
C5_LastWriteWins ==
    (alive /\ last.op = "set" /\ last.rewrite /\ last.res = Ok)
        => get(store, disk, last.key) = Some(last.value)

\* C6: remove hides.  After set(k, v) and a successful remove(k), get(k)
\* returns None and another remove(k) fails with KeyNotFound, on the
\* instance and also after it is dropped and the directory reopened.
C6_RemoveHides ==
    /\ (alive /\ last.op = "remove")
          => \A k \in last.hidden :
                /\ get(store, disk, k) = None
                /\ remove(store, disk, k).res = Err("KeyNotFound")
    /\ (last.op = "open" /\ last.from = "drop" /\ last.hidden # {})
          => /\ last.res = Ok
             /\ \A k \in last.hidden :
                   /\ get(store, disk, k) = None
                   /\ remove(store, disk, k).res = Err("KeyNotFound")

\* C7: remove(k) fails with KeyNotFound exactly when k is not in the index
\* at the call, and then appends nothing and leaves the index, the stale
\* counter and the active generation as they were; get(k) of a key that is
\* not in the index returns a successful None.
C7_RemoveMissingKey ==
    /\ last.op = "remove"
          => /\ (last.res = Err("KeyNotFound"))
                   <=> (last.key \notin DOMAIN last.preStore.index)
             /\ last.res = Err("KeyNotFound")
                   => (disk = last.preDisk /\ store = last.preStore)
             /\ last.res \in {Ok, Err("KeyNotFound")}
    /\ (last.op = "get" /\ last.key \notin DOMAIN last.preStore.index)
          => last.res = None

\* C7 happens: a remove of an absent key, on a store whose log is not empty
C7_Witness ==
    /\ alive
    /\ last.op = "remove"
    /\ last.res = Err("KeyNotFound")
    /\ store.index # EmptyIndex
    /\ Len(disk[store.generation]) > 0

\* C8: crash during compaction.  If the process died in compact before the
\* old segments were all deleted and no file holds a torn command, the next
\* open succeeds and get returns for every key what was visible before the
\* compaction started; and an old segment is missing only after the flush.
C8_CrashDuringCompaction ==
    /\ (last.op = "open" /\ last.from = "crash"
            /\ Cardinality(DOMAIN last.preDisk) >= 2 /\ Untorn(last.preDisk))
          => (last.res = Ok /\ Visible(store, disk) = last.pre)
    /\ (last.op = "crash" /\ ~(DOMAIN last.preDisk \subseteq DOMAIN disk))
          => last.flushed

\* C9: compaction shrinks or equals.  After a compaction (which runs only
\* with stale bytes counted) the segment files of the directory together
\* hold at most as many bytes as just before it.
C9_CompactionShrinks ==
    (alive /\ last.op = "set" /\ last.compacted /\ last.res = Ok)
        => TotalBytes(disk) <= TotalBytes(last.preDisk)

\* C10: opened on an existing non-empty active generation file the writer
\* starts at the size of that file, so every later set records as offset the
\* place in the file where its command starts, and the position advances by
\* the number of bytes written.
C10_WriterPosition ==
    /\ (alive /\ last.op = "open" /\ last.from # "")
          => store.writer.pos = Len(disk[store.generation])
    /\ (alive /\ last.op = "set" /\ ~last.compacted)
          => LET bytes == to_writer(SetAction(last.key, last.value))
             IN /\ store.index[last.key].offset
                      = Len(disk[store.generation]) - Len(bytes)
                /\ store.writer.pos = last.preStore.writer.pos + Len(bytes)

\* the commands of a segment as load iterates over them, each with the
\* byte offset it starts at and its length (next_offset - offset)
RECURSIVE commandsFrom(_, _)
commandsFrom(bytes, offset) ==
    IF offset >= Len(bytes) THEN <<>>
    ELSE LET p == ParseAt(bytes, offset + 1)
         IN IF ~p.ok THEN <<>>
            ELSE <<[action |-> p.action, offset |-> offset,
                    length |-> p.next - offset]>>
                 \o commandsFrom(bytes, p.next)

\* the generations of the directory whose segment holds a command for key
generationsOf(d, key) ==
    {g \in DOMAIN d :
        \E i \in DOMAIN commandsFrom(d[g], 0) :
            commandsFrom(d[g], 0)[i].action.key = key}

\* the last command for key of segment g, with its offset and length
lastCommand(d, g, key) ==
    LET cs == commandsFrom(d[g], 0)
        i == CHOOSE i \in DOMAIN cs :
                /\ cs[i].action.key = key
                /\ \A j \in DOMAIN cs : cs[j].action.key = key => j <= i
    IN cs[i]

\* C11: index load on open.  After open on a directory, every index record
\* carries the generation of the segment its command was read from, with the
\* command's offset and length in that segment, and for every key the command
\* of the latest generation (the last one in it) decides: a Set gives the
\* record, a Remove leaves the key out.
C11_IndexLoadOnOpen ==
    (alive /\ last.op = "open" /\ last.res = Ok)
        => \A k \in Keys :
              LET G == generationsOf(last.preDisk, k)
              IN IF G = {} THEN k \notin DOMAIN store.index
                 ELSE LET g == CHOOSE x \in G : \A y \in G : y <= x
                          c == lastCommand(last.preDisk, g, k)
                      IN IF c.action.tag = "Remove"
                         THEN k \notin DOMAIN store.index
                         ELSE /\ k \in DOMAIN store.index
                              /\ store.index[k]
                                    = KvIndexRecord(g, c.offset, c.length)

\* the sum of the lengths of the records of an index
RECURSIVE liveBytes(_, _)
liveBytes(index, S) ==
    IF S = {} THEN 0
    ELSE LET k == CHOOSE x \in S : TRUE
         IN index[k].length + liveBytes(index, S \ {k})

\* C12: compaction output.  After a compaction the new segment holds exactly
\* one Set command per live key and nothing else: its size is the sum of the
\* lengths of the index records, and every record's offset is the start of
\* the copy of its own command in the new segment.
C12_CompactionOutput ==
    (alive /\ last.op = "set" /\ last.compacted /\ last.res = Ok)
        => /\ Len(disk[store.generation])
                 = liveBytes(store.index, DOMAIN store.index)
           /\ Len(commandsFrom(disk[store.generation], 0))
                 = Cardinality(DOMAIN store.index)
           /\ \A k \in DOMAIN store.index :
                 LET rec == store.index[k]
                     p == from_reader(ReadTake(disk[store.generation],
                                               rec.offset, rec.length))
                 IN /\ rec.generation = store.generation
                    /\ rec.offset >= 0
                    /\ p.ok /\ p.action.tag = "Set" /\ p.action.key = k

\* C13: stale accounting on remove.  A successful remove(k) adds to the stale
\* counter the length of k's index record plus the length of the Remove
\* command it appended; so, as long as no compaction has run, the counter of
\* an instance opened on an empty directory is what load computes when the
\* log it wrote is replayed.
C13_StaleAccountingOnRemove ==
    /\ (last.op = "remove" /\ last.res = Ok)
          => store.compactable
                = last.preStore.compactable
                    + last.preStore.index[last.key].length
                    + Len(to_writer(RemoveAction(last.key)))
    /\ (alive /\ store.generation = 0)
          => store.compactable = load(EmptyIndex, 0, disk[0]).compactable

\* C14: compaction trigger.  set invokes compact exactly when the stale
\* counter after the index upsert is greater than THRESHOLD, a compaction
\* leaves the counter at 0, and so after every successful set the counter is
\* at most THRESHOLD, whatever it was before the set.
C14_CompactionTrigger ==
    last.op = "set"
        => LET pre == last.preStore
               outdated == IF last.key \in DOMAIN pre.index
                           THEN pre.index[last.key].length ELSE 0
               counter == pre.compactable + outdated
           IN /\ last.compacted <=> (counter > THRESHOLD)
              /\ (last.res = Ok /\ last.compacted) => store.compactable = 0
              /\ (last.res = Ok /\ ~last.compacted) => store.compactable = counter
              /\ last.res = Ok => store.compactable <= THRESHOLD

\* C14 happens: a set that succeeded and compacted on a store whose counter
\* was above THRESHOLD already before the set (after removes, or as replayed
\* by open)
C14_Witness ==
    /\ alive
    /\ last.op = "set"
    /\ last.res = Ok
    /\ last.compacted
    /\ last.preStore.compactable > THRESHOLD
    /\ store.compactable = 0

\* bytes ends with tail
EndsWith(bytes, tail) ==
    /\ Len(bytes) >= Len(tail)
    /\ SubSeq(bytes, Len(bytes) - Len(tail) + 1, Len(bytes)) = tail

\* C15: generation invariants.  Between operations the active generation is
\* the largest generation with a file in the directory and the writer appends
\* to that file; after a completed compaction the files and the readers of
\* all generations below the new one are gone and the readers map holds the
\* new generation only; no index record references a segment that has been
\* deleted.
C15_GenerationInvariants ==
    /\ alive
          => /\ store.generation \in DOMAIN disk
             /\ \A g \in DOMAIN disk : g <= store.generation
             /\ \A k \in DOMAIN store.index :
                   store.index[k].generation \in DOMAIN disk
    /\ (alive /\ last.op = "remove" /\ last.res = Ok)
          => /\ EndsWith(disk[store.generation], to_writer(RemoveAction(last.key)))
             /\ Len(disk[store.generation])
                   > Len(last.preDisk[store.generation])
             /\ \A g \in DOMAIN disk \ {store.generation} :
                   disk[g] = last.preDisk[g]
    /\ (alive /\ last.op = "set" /\ ~last.compacted)
          => EndsWith(disk[store.generation],
                      to_writer(SetAction(last.key, last.value)))
    /\ (alive /\ last.op = "set" /\ last.compacted /\ last.res = Ok)
          => /\ store.generation = last.preStore.generation + 1
             /\ DOMAIN disk = {store.generation}
             /\ store.readers = {store.generation}

\* C15 happens: a compaction completed on a directory that held several
\* generations, and the store was used after it
C15_Witness ==
    /\ alive
    /\ last.op = "set"
    /\ last.compacted
    /\ last.res = Ok
    /\ Cardinality(DOMAIN last.preDisk) >= 2
    /\ DOMAIN disk = {store.generation}
    /\ store.index # EmptyIndex

\* C16: no unsigned underflow.  In every execution, also on a store reopened
\* after a crash that left several generations and then compacted, the
\* minuend is at least the subtrahend in writer.pos - offset of set, in
\* next_offset - offset of load and in writer.pos - length of compact.
C16_NoUnsignedUnderflow ==
    /\ last.op = "set"
          => /\ ~last.underflow
             /\ setWrite(last.preStore, last.preDisk, last.key, last.value)
                   .store.writer.pos >= last.preStore.writer.pos
    /\ last.op = "open"
          => \A g \in DOMAIN last.preDisk :
                LET cs == commandsFrom(last.preDisk[g], 0)
                IN \A i \in DOMAIN cs : cs[i].length >= 0

\* C17: corrupt log at open.  If a segment of the directory holds a command
\* that does not decode (a truncated last command, say), open returns an
\* error and there is no store instance, in particular none built from the
\* commands before the bad one, and no segment file is changed.
C17_CorruptLogAtOpen ==
    (last.op = "open" /\ ~Untorn(last.preDisk))
        => /\ last.res = Err("Serde")
           /\ ~alive
           /\ store = NoStore
           /\ disk = last.preDisk

\* C17 happens: open was run on a directory one of whose segments holds whole
\* commands followed by a torn one
C17_Witness ==
    /\ last.op = "open"
    /\ last.res = Err("Serde")
    /\ \E g \in DOMAIN last.preDisk :
          /\ ~load(EmptyIndex, g, last.preDisk[g]).ok
          /\ Len(commandsFrom(last.preDisk[g], 0)) >= 1

\* C18: frame of the operations that do not compact.  get, remove and a set
\* that does not compact create no segment file, delete none, and leave the
\* readers map and the active generation as they were; get leaves the index,
\* the stale counter and the contents of every segment file as they were too.
C18_FrameOfNonCompacting ==
    /\ last.op = "get"
          => /\ alive
             /\ store = last.preStore
             /\ disk = last.preDisk
    /\ last.op = "remove"
          => /\ DOMAIN disk = DOMAIN last.preDisk
             /\ store.readers = last.preStore.readers
             /\ store.generation = last.preStore.generation
    /\ (last.op = "set" /\ ~last.compacted)
          => /\ DOMAIN disk = DOMAIN last.preDisk
             /\ DOMAIN disk = last.preStore.readers
             /\ store.readers = last.preStore.readers
             /\ store.generation = last.preStore.generation

\* C18 happens: a remove took the stale counter above THRESHOLD on a store
\* that holds another key, and nothing was compacted
C18_Witness ==
    /\ alive
    /\ last.op = "remove"
    /\ last.res = Ok
    /\ last.preStore.compactable <= THRESHOLD
    /\ store.compactable > THRESHOLD
    /\ store.index # EmptyIndex
    /\ store.generation = last.preStore.generation

\* C19: reader availability.  In every state, also after open on a directory
\* with several generations and at every iteration of the loop of compact,
\* the generation of every index record is a key of the readers map: neither
\* get nor compact hits the "No reader for generation" panic.
C19_ReaderAvailability ==
    /\ alive
          => \A k \in DOMAIN store.index :
                store.index[k].generation \in store.readers
    /\ last.res # Err("NoReaderPanic")

\* C19 happens: open replayed a directory that a crash left with several
\* generations, and the index it built is not empty
C19_Witness ==
    /\ alive
    /\ last.op = "open"
    /\ last.from = "crash"
    /\ Cardinality(store.readers) >= 2
    /\ store.index # EmptyIndex

====
